---------------------------- MODULE Spec2Model ----------------------------
(***************************************************************************)
(* Model of the QT CPU emulator (source/qt_emulator.py): the registers,    *)
(* the memory banks, import_code, and the fetch / dispatch / flag refresh  *)
(* / program counter advance loop of QTEmulator.run with every instruction *)
(* handler.                                                                *)
(*                                                                         *)
(* Scalar arithmetic follows numpy's fixed-width scalar rules (NEP 50):    *)
(* an operation between a uint16 / uint32 scalar and a Python int keeps    *)
(* the numpy type and wraps modulo 2^16 / 2^32; uintN(x) of a wider numpy  *)
(* scalar truncates; a shift by at least the bit width yields 0; integer   *)
(* division and remainder by zero yield 0.                                 *)
(*                                                                         *)
(* The zero-filled numpy arrays are kept sparse: a bank is a function from *)
(* the indices holding a non-zero value to that value.                     *)
(***************************************************************************)
EXTENDS Integers, Naturals, Sequences, FiniteSets, TLC

----------------------------------------------------------------------------
(* Program constants *)

ADDRESS_BIT_WIDTH == 16

VALUE_BIT_WIDTH == ADDRESS_BIT_WIDTH

OPCODE_BIT_WIDTH == 7

MAX_UINT16 == (2^16) - 1

\* FLAG_MAPPING
FLAG_CARRY == 0

FLAG_PARITY == 1

FLAG_ZERO == 2

FLAG_SIGN == 3

FLAG_OVERFLOW == 4

FLAG_UNDERFLOW == 5

----------------------------------------------------------------------------
(* Bounds of the model *)

\* run dispatches at most MaxSteps instructions in a behaviour
MaxSteps == 7

\* longest program of the stack family
MaxStackProg == 7

\* longest program of the call family
MaxCallProg == 5

\* longest program file given to load, in bytes
MaxStream == 7

\* instructions executed at most in the behaviours with a module layer
MaxModuleSteps == 12

----------------------------------------------------------------------------
(* Fixed-width integer arithmetic (numpy scalars) *)

U8(x) == x % (2^8)

U16(x) == x % (2^16)

\* A uint32 is the pair <<high 16 bits, low 16 bits>>.
\* uint32(x) of a uint16 or of a small Python int
ToU32(x) == <<(x \div (2^16)) % (2^16), x % (2^16)>>

U32Add(a, b) ==
    LET lo == a[2] + b[2]
    IN  <<(a[1] + b[1] + (lo \div (2^16))) % (2^16), lo % (2^16)>>

U32Sub(a, b) ==
    LET lo == a[2] - b[2]
        borrow == IF lo < 0 THEN 1 ELSE 0
    IN  <<(a[1] - b[1] - borrow) % (2^16), lo % (2^16)>>

\* uint32(x) * y for uint16 x and y: the product is below 2^32
U32Mul(x, y) ==
    LET p1 == (x \div (2^8)) * y
        p0 == (x % (2^8)) * y
        up == p1 + (p0 \div (2^8))
    IN  <<up \div (2^8), ((up % (2^8)) * (2^8)) + (p0 % (2^8))>>

\* a > n and a < n for a uint32 a and a Python int n (n < 2^31)
U32Gt(a, n) ==
    \/ n < 0
    \/ a[1] > (n \div (2^16))
    \/ (a[1] = (n \div (2^16)) /\ a[2] > (n % (2^16)))

U32Lt(a, n) ==
    /\ n > 0
    /\ \/ a[1] < (n \div (2^16))
       \/ (a[1] = (n \div (2^16)) /\ a[2] < (n % (2^16)))

\* uint16(a & MAX_UINT16) for a uint32 a
U32Low16(a) == a[2]

RECURSIVE BitAnd(_, _)
BitAnd(a, b) ==
    IF a = 0 \/ b = 0 THEN 0
    ELSE ((a % 2) * (b % 2)) + (2 * BitAnd(a \div 2, b \div 2))

RECURSIVE BitOr(_, _)
BitOr(a, b) ==
    IF a = 0 THEN b
    ELSE IF b = 0 THEN a
    ELSE (IF a % 2 = 1 \/ b % 2 = 1 THEN 1 ELSE 0) + (2 * BitOr(a \div 2, b \div 2))

RECURSIVE BitXor(_, _)
BitXor(a, b) ==
    IF a = 0 THEN b
    ELSE IF b = 0 THEN a
    ELSE ((a + b) % 2) + (2 * BitXor(a \div 2, b \div 2))

\* ~x on a uint16
BitNot16(x) == MAX_UINT16 - x

\* x << n on a uint16 (n a uint16 or a small Python int)
Shl16(x, n) == IF n >= 16 THEN 0 ELSE U16(x * (2^n))

\* x >> n on a uint16
Shr16(x, n) == IF n >= 16 THEN 0 ELSE x \div (2^n)

\* x >> n on a uint32, n < 32
Shr32(x, n) == x \div (2^n)

----------------------------------------------------------------------------
(* Memory banks: numpy zeros(2^16), kept sparse *)

EmptyBank == [i \in {} |-> 0]

Read(bank, i) == IF i \in DOMAIN bank THEN bank[i] ELSE 0

Write(bank, i, v) ==
    IF v = 0
    THEN [j \in (DOMAIN bank) \ {i} |-> bank[j]]
    ELSE [j \in (DOMAIN bank) \cup {i} |-> IF j = i THEN v ELSE bank[j]]

----------------------------------------------------------------------------
(* Word codec of import_code and of the fetch step of run *)

\* import_code with the value field shifted by the wrong width
EncodeWordShift8(memory_flag, value, opcode) ==
    (memory_flag * (2^23)) + (value * (2^8)) + opcode

\* uint32((memory_flag << 23) + (value << 7) + opcode), on Python ints
\* (below 2^25 for every record of the loader, so the cast never wraps)
EncodeWord(memory_flag, value, opcode) ==
    (memory_flag * (2^23)) + (value * (2^7)) + opcode

\* flag = uint8(word >> 23)
FetchFlag(word) == U8(Shr32(word, 23))

\* value = uint16(word >> 7)
FetchValue(word) == U16(Shr32(word, 7))

\* opcode = uint8(word & 127)
FetchOpcode(word) == U8(BitAnd(word, 127))

----------------------------------------------------------------------------
(* Flag register *)

\* _set_flag numbering the bits from 1
set_flag_from_one(s, bit, value) ==
    IF value
    THEN [s EXCEPT !.flag_register = BitOr(@, 2^(bit + 1))]
    ELSE [s EXCEPT !.flag_register = BitAnd(@, BitNot16(U16(2^(bit + 1))))]

\* _set_flag: flag_register |= 1 << bit, or flag_register &= ~uint16(1 << bit)
set_flag(s, bit, value) ==
    IF value
    THEN [s EXCEPT !.flag_register = BitOr(@, 2^bit)]
    ELSE [s EXCEPT !.flag_register = BitAnd(@, BitNot16(U16(2^bit)))]

\* _get_flag: (flag_register & (1 << bit)) > 0
get_flag(s, bit) == BitAnd(s.flag_register, 2^bit) > 0

\* _check_flags folding only the low byte into the parity
check_flags_low_byte(s) ==
    LET acc  == s.accumulator
        par0 == BitXor(acc, Shr16(acc, 1))
        par1 == BitXor(par0, Shr16(par0, 2))
        par2 == BitXor(par1, Shr16(par1, 4))
        s1   == set_flag(s, FLAG_PARITY, BitAnd(par2, 1) # 0)
        s2   == set_flag(s1, FLAG_ZERO, acc = 0)
    IN  set_flag(s2, FLAG_SIGN, BitAnd(acc, 2^(VALUE_BIT_WIDTH - 1)) > 0)

\* _check_flags: parity, zero and sign from the accumulator
check_flags(s) ==
    LET acc  == s.accumulator
        par0 == BitXor(acc, Shr16(acc, 1))
        par1 == BitXor(par0, Shr16(par0, 2))
        par2 == BitXor(par1, Shr16(par1, 4))
        par3 == BitXor(par2, Shr16(par2, 8))
        s1   == set_flag(s, FLAG_PARITY, BitAnd(par3, 1) # 0)
        s2   == set_flag(s1, FLAG_ZERO, acc = 0)
    IN  set_flag(s2, FLAG_SIGN, BitAnd(acc, 2^(VALUE_BIT_WIDTH - 1)) > 0)

----------------------------------------------------------------------------
(* Instruction handlers.  s is the emulator (a record of its fields), value  *)
(* the bus value handed over by run.                                        *)

\* a trap handler that reports the exit code and keeps the loop going
unknown_instruction_continue(s, value) == [s EXCEPT !.exit_code = -1]

\* _unknown_instruction_halt
unknown_instruction_halt(s, value) ==
    [s EXCEPT !.running = FALSE, !.exit_code = -1]

i000_nop(s, value) == s

i001_load(s, value) == [s EXCEPT !.accumulator = value]

\* store writing the program bank instead of the cache
i002_store_into_rom(s, value) == [s EXCEPT !.rom = Write(@, value, s.accumulator)]

i002_store(s, value) == [s EXCEPT !.cache = Write(@, value, s.accumulator)]

i003_loadp(s, value) == [s EXCEPT !.accumulator = Read(s.cache, s.accumulator)]

i004_loadpr(s, value) == [s EXCEPT !.pointer_register = value]

i005_storep(s, value) ==
    [s EXCEPT !.cache = Write(@, s.pointer_register, s.accumulator)]

i006_tapr(s, value) == [s EXCEPT !.pointer_register = s.accumulator]

i007_push(s, value) ==
    [s EXCEPT !.stack = Write(@, s.stack_pointer, s.accumulator),
              !.stack_pointer = U16(@ + 1)]

\* pop reading the stack before moving the pointer
i008_pop_postdec(s, value) ==
    [s EXCEPT !.stack_pointer = U16(@ - 1),
              !.accumulator = Read(s.stack, s.stack_pointer)]

i008_pop(s, value) ==
    LET sp == U16(s.stack_pointer - 1)
    IN  [s EXCEPT !.stack_pointer = sp,
                  !.accumulator = Read(s.stack, sp)]

i009_call(s, value) ==
    [s EXCEPT !.address_stack = Write(@, s.address_stack_pointer, s.program_counter),
              !.address_stack_pointer = U16(@ + 1),
              !.program_counter = U16(value - 1)]

\* return reading the address stack before moving the pointer
i010_return_postdec(s, value) ==
    [s EXCEPT !.address_stack_pointer = U16(@ - 1),
              !.program_counter = Read(s.address_stack, s.address_stack_pointer)]

i010_return(s, value) ==
    LET asp == U16(s.address_stack_pointer - 1)
    IN  [s EXCEPT !.address_stack_pointer = asp,
                  !.program_counter = Read(s.address_stack, asp)]

\* jump without the -1 bias
i011_jump_unbiased(s, value) == [s EXCEPT !.program_counter = value]

i011_jump(s, value) == [s EXCEPT !.program_counter = U16(value - 1)]

\* jumpc taken only when every selected flag is set
i012_jumpc_all(s, value) ==
    LET condition == /\ value # 0
                     /\ \A x \in 0..15 : BitAnd(value, 2^x) # 0 => get_flag(s, x)
    IN  IF condition
        THEN [s EXCEPT !.program_counter = U16(s.pointer_register - 1)]
        ELSE s

i012_jumpc(s, value) ==
    LET condition == \E x \in 0..15 : BitAnd(value, 2^x) # 0 /\ get_flag(s, x)
    IN  IF condition
        THEN [s EXCEPT !.program_counter = U16(s.pointer_register - 1)]
        ELSE s

\* clf clearing only the flags its bitmask selects
i013_clf_masked(s, value) ==
    [s EXCEPT !.flag_register = BitAnd(@, BitNot16(value))]

i013_clf(s, value) == [s EXCEPT !.flag_register = 0]

i016_and(s, value) == [s EXCEPT !.accumulator = BitAnd(@, value)]

i017_or(s, value) == [s EXCEPT !.accumulator = BitOr(@, value)]

i018_xor(s, value) == [s EXCEPT !.accumulator = BitXor(@, value)]

i019_lsl(s, value) ==
    LET carry == Shr16(s.accumulator, VALUE_BIT_WIDTH - 1)
        s1    == set_flag(s, FLAG_OVERFLOW, carry # 0)
    IN  [s1 EXCEPT !.accumulator = Shl16(@, value)]

i020_lsr(s, value) ==
    LET carry == Shl16(BitAnd(s.accumulator, 1), VALUE_BIT_WIDTH - 1)
        s1    == set_flag(s, FLAG_UNDERFLOW, carry # 0)
    IN  [s1 EXCEPT !.accumulator = Shr16(@, value)]

i021_rol(s, value) ==
    LET carry == Shr16(s.accumulator, VALUE_BIT_WIDTH - 1)
    IN  [s EXCEPT !.accumulator = U16(Shl16(@, value) + carry)]

i022_ror(s, value) ==
    LET carry == Shl16(BitAnd(s.accumulator, 1), VALUE_BIT_WIDTH - 1)
    IN  [s EXCEPT !.accumulator = U16(Shr16(@, value) + carry)]

\* comp also reporting "less than" in the carry flag
i023_comp_sets_carry(s, value) ==
    LET s1 == set_flag(s, FLAG_CARRY, s.accumulator < value)
    IN  [s1 EXCEPT !.accumulator = IF @ < value THEN MAX_UINT16
                                   ELSE IF @ = value THEN 0 ELSE 1]

i023_comp(s, value) ==
    [s EXCEPT !.accumulator = IF @ < value THEN MAX_UINT16
                              ELSE IF @ = value THEN 0 ELSE 1]

i032_add(s, value) ==
    LET wide == U32Add(ToU32(s.accumulator), ToU32(value))
        s1   == set_flag(s, FLAG_CARRY, U32Gt(wide, MAX_UINT16))
    IN  [s1 EXCEPT !.accumulator = U16(@ + value)]

i033_sub(s, value) ==
    LET wide == U32Sub(ToU32(s.accumulator), ToU32(value))
        s1   == set_flag(s, FLAG_CARRY, U32Lt(wide, 0))
    IN  [s1 EXCEPT !.accumulator = U16(@ - value)]

\* addc leaving the carry flag out of the sum
i034_addc_no_carry_in(s, value) ==
    LET result == U32Add(ToU32(s.accumulator), ToU32(value))
        s1     == set_flag(s, FLAG_CARRY, U32Gt(result, MAX_UINT16))
    IN  [s1 EXCEPT !.accumulator = U32Low16(result)]

i034_addc(s, value) ==
    LET carry  == IF get_flag(s, FLAG_CARRY) THEN 1 ELSE 0
        result == U32Add(U32Add(ToU32(s.accumulator), ToU32(value)), ToU32(carry))
        s1     == set_flag(s, FLAG_CARRY, U32Gt(result, MAX_UINT16))
    IN  [s1 EXCEPT !.accumulator = U32Low16(result)]

i035_subc(s, value) ==
    LET carry  == IF get_flag(s, FLAG_CARRY) THEN 1 ELSE 0
        result == U32Sub(U32Sub(ToU32(s.accumulator), ToU32(value)), ToU32(carry))
        s1     == set_flag(s, FLAG_CARRY, U32Lt(result, 0))
    IN  [s1 EXCEPT !.accumulator = U32Low16(result)]

i036_inc(s, value) ==
    LET wide == U32Add(ToU32(s.accumulator), ToU32(1))
        s1   == set_flag(s, FLAG_CARRY, U32Gt(wide, MAX_UINT16))
    IN  [s1 EXCEPT !.accumulator = U16(@ + 1)]

i037_dec(s, value) ==
    LET wide == U32Sub(ToU32(s.accumulator), ToU32(1))
        s1   == set_flag(s, FLAG_CARRY, U32Lt(wide, 0))
    IN  [s1 EXCEPT !.accumulator = U16(@ - 1)]

i038_mul(s, value) ==
    LET wide == U32Mul(s.accumulator, value)
        s1   == set_flag(s, FLAG_OVERFLOW, U32Gt(wide, MAX_UINT16))
    IN  [s1 EXCEPT !.accumulator = U32Low16(wide)]

i039_div(s, value) ==
    [s EXCEPT !.accumulator = IF value = 0 THEN 0 ELSE @ \div value]

i040_mod(s, value) ==
    [s EXCEPT !.accumulator = IF value = 0 THEN 0 ELSE @ % value]

i096_portw(s, value) == [s EXCEPT !.ports = Write(@, value, s.accumulator)]

\* portr consuming the port it reads
i097_portr_consuming(s, value) ==
    [s EXCEPT !.accumulator = Read(s.ports, value), !.ports = Write(@, value, 0)]

i097_portr(s, value) == [s EXCEPT !.accumulator = Read(s.ports, value)]

i126_int(s, value) == [s EXCEPT !.running = FALSE, !.exit_code = value]

\* halt reporting the exit code without stopping the loop
i127_halt_keeps_running(s, value) == [s EXCEPT !.exit_code = 0]

i127_halt(s, value) == [s EXCEPT !.running = FALSE, !.exit_code = 0]

\* _make_instruction_lookup: 2^7 slots, each the trap handler unless a method
\* _iNNN_* registers opcode NNN
OpcodeSlots == 0..((2^OPCODE_BIT_WIDTH) - 1)

RegisteredOpcodes == (0..13) \cup (16..23) \cup (32..40) \cup {96, 97, 126, 127}

instruction_lookup(opcode, s, value) ==
    CASE opcode = 0 -> i000_nop(s, value)
      [] opcode = 1 -> i001_load(s, value)
      [] opcode = 2 -> i002_store(s, value)
      [] opcode = 3 -> i003_loadp(s, value)
      [] opcode = 4 -> i004_loadpr(s, value)
      [] opcode = 5 -> i005_storep(s, value)
      [] opcode = 6 -> i006_tapr(s, value)
      [] opcode = 7 -> i007_push(s, value)
      [] opcode = 8 -> i008_pop(s, value)
      [] opcode = 9 -> i009_call(s, value)
      [] opcode = 10 -> i010_return(s, value)
      [] opcode = 11 -> i011_jump(s, value)
      [] opcode = 12 -> i012_jumpc(s, value)
      [] opcode = 13 -> i013_clf(s, value)
      [] opcode = 16 -> i016_and(s, value)
      [] opcode = 17 -> i017_or(s, value)
      [] opcode = 18 -> i018_xor(s, value)
      [] opcode = 19 -> i019_lsl(s, value)
      [] opcode = 20 -> i020_lsr(s, value)
      [] opcode = 21 -> i021_rol(s, value)
      [] opcode = 22 -> i022_ror(s, value)
      [] opcode = 23 -> i023_comp(s, value)
      [] opcode = 32 -> i032_add(s, value)
      [] opcode = 33 -> i033_sub(s, value)
      [] opcode = 34 -> i034_addc(s, value)
      [] opcode = 35 -> i035_subc(s, value)
      [] opcode = 36 -> i036_inc(s, value)
      [] opcode = 37 -> i037_dec(s, value)
      [] opcode = 38 -> i038_mul(s, value)
      [] opcode = 39 -> i039_div(s, value)
      [] opcode = 40 -> i040_mod(s, value)
      [] opcode = 96 -> i096_portw(s, value)
      [] opcode = 97 -> i097_portr(s, value)
      [] opcode = 126 -> i126_int(s, value)
      [] opcode = 127 -> i127_halt(s, value)
      [] OTHER -> unknown_instruction_halt(s, value)

----------------------------------------------------------------------------
(* State *)

VARIABLES
    args_namespace,         \* the --namespace argument: "QT" or "QM"
    stream,                 \* the bytes of the opened program file
    pos,                    \* the file position: bytes read so far
    namespace,              \* the tag bytes load has collected
    load_pc,                \* where load is: "header" (the tag loop),
                            \* "records" (the record loop), "returned",
                            \* "raised" (left by an exception)
    instructions,           \* the instruction tuples load has collected,
                            \* handed to import_code
    phase,                  \* how far the caller got: "loading" (no
                            \* emulator yet), "constructed",
                            \* "initialized" (initialize_memory done),
                            \* "imported" (import_code done), "crashed"
                            \* (an exception left Application.run or the
                            \* module layer)
    rom, cache, stack, address_stack, ports,
    accumulator, pointer_register, program_counter, flag_register,
    stack_pointer, address_stack_pointer,
    instructions_executed, running, exit_code,
    history,                \* one entry per loop iteration of run, in order
    screen_module,          \* the ModuleLinker's screen: NoScreen, or the
                            \* ScreenModule object
    syscalls                \* one entry per call of process_syscall, in order

vars == <<args_namespace, stream, pos, namespace, load_pc,
          instructions, phase, rom, cache, stack, address_stack, ports,
          accumulator, pointer_register, program_counter, flag_register,
          stack_pointer, address_stack_pointer,
          instructions_executed, running, exit_code, history,
          screen_module, syscalls>>

\* the state of load and of the file it reads
loader == <<stream, pos, namespace, load_pc>>

\* the state of the module layer
modules == <<screen_module, syscalls>>

\* self.screen_module = None
NoScreen == [exists |-> FALSE]

\* the emulator object
Emu ==
    [rom |-> rom, cache |-> cache, stack |-> stack,
     address_stack |-> address_stack, ports |-> ports,
     accumulator |-> accumulator, pointer_register |-> pointer_register,
     program_counter |-> program_counter, flag_register |-> flag_register,
     stack_pointer |-> stack_pointer,
     address_stack_pointer |-> address_stack_pointer,
     instructions_executed |-> instructions_executed,
     running |-> running, exit_code |-> exit_code]

\* the emulator object in the next state
EmuNext(t) ==
    /\ rom' = t.rom
    /\ cache' = t.cache
    /\ stack' = t.stack
    /\ address_stack' = t.address_stack
    /\ ports' = t.ports
    /\ accumulator' = t.accumulator
    /\ pointer_register' = t.pointer_register
    /\ program_counter' = t.program_counter
    /\ flag_register' = t.flag_register
    /\ stack_pointer' = t.stack_pointer
    /\ address_stack_pointer' = t.address_stack_pointer
    /\ instructions_executed' = t.instructions_executed
    /\ running' = t.running
    /\ exit_code' = t.exit_code

----------------------------------------------------------------------------
(* Operations of the emulator *)

\* QTEmulator.__init__
Constructed ==
    [rom |-> EmptyBank, cache |-> EmptyBank, stack |-> EmptyBank,
     address_stack |-> EmptyBank, ports |-> EmptyBank,
     accumulator |-> 0, pointer_register |-> 0, program_counter |-> 0,
     flag_register |-> 0, stack_pointer |-> 0, address_stack_pointer |-> 0,
     instructions_executed |-> 0, running |-> FALSE, exit_code |-> 0]

\* initialize_memory: every bank zero-filled
initialize_memory(s) ==
    [s EXCEPT !.rom = EmptyBank, !.cache = EmptyBank, !.stack = EmptyBank,
              !.address_stack = EmptyBank, !.ports = EmptyBank]

\* import_code: rom[idx] = word of instruction idx, for idx = 0, 1, ...
RECURSIVE ImportFrom(_, _, _)
ImportFrom(bank, instrs, idx) ==
    IF idx >= Len(instrs) THEN bank
    ELSE LET instruction == instrs[idx + 1]
             memory_flag == instruction[1]
             value       == instruction[2]
             opcode      == instruction[3]
         IN  ImportFrom(Write(bank, idx, EncodeWord(memory_flag, value, opcode)),
                        instrs, idx + 1)

import_code(s, instrs) == [s EXCEPT !.rom = ImportFrom(@, instrs, 0)]

\* run zeroing the instruction count on entry
run_enter_recount(s) == [s EXCEPT !.running = TRUE, !.instructions_executed = 0]

\* run restarting the program on entry
run_enter_restart(s) == [s EXCEPT !.running = TRUE, !.program_counter = 0]

\* run, before the loop: self.running = True
run_enter(s) == [s EXCEPT !.running = TRUE]

\* run, the fetch of one loop iteration
Fetch(s) ==
    LET word   == Read(s.rom, s.program_counter)
        flag   == FetchFlag(word)
        value  == FetchValue(word)
        opcode == FetchOpcode(word)
    IN  [pc |-> s.program_counter, flag |-> flag, value |-> value,
         opcode |-> opcode,
         bus |-> IF flag # 0 THEN Read(s.cache, value) ELSE value]

\* the program counter advance without the 16-bit wrap
advance_unbounded(s) == [s EXCEPT !.program_counter = @ + 1]

\* run, program counter advance: self.program_counter += 1
advance(s) == [s EXCEPT !.program_counter = U16(@ + 1)]

\* run counting only the instructions that leave the loop running
count_unless_stopped(s) ==
    IF s.running THEN [s EXCEPT !.instructions_executed = @ + 1] ELSE s

\* run, instruction count: self.instructions_executed += 1
count(s) == [s EXCEPT !.instructions_executed = @ + 1]

\* run, one loop iteration: dispatch, count, flag refresh, advance
run_iteration(s) ==
    LET f == Fetch(s)
    IN  advance(check_flags(count(instruction_lookup(f.opcode, s, f.bus))))

----------------------------------------------------------------------------
(* Programs *)

Instr(memory_flag, value, opcode) == <<memory_flag, value, opcode>>

\* value fields of the probed instruction
ProbeValues == {0, 1, 2, 128, 10000, 65535}

\* every record the loader can produce over ProbeValues
ProbeInstr == {Instr(m, v, o) : m \in {0, 1}, v \in ProbeValues, o \in 0..255}

\* instruction sequences that bring the emulator into a state of interest
Setups ==
    { <<>>,
      <<Instr(0, 65535, 1)>>,
      <<Instr(0, 60000, 1)>>,
      <<Instr(0, 65535, 1), Instr(0, 0, 36)>>,
      <<Instr(0, 7, 1), Instr(0, 1, 2)>>,
      <<Instr(0, 3, 1), Instr(0, 0, 7), Instr(0, 0, 96), Instr(0, 0, 6)>>,
      <<Instr(0, 1, 9)>>,
      <<Instr(0, 128, 126), Instr(0, 5, 1)>>,
      <<Instr(0, 7, 1), Instr(0, 0, 6)>>,
      <<Instr(0, 65535, 1), Instr(0, 0, 19), Instr(0, 0, 20), Instr(0, 0, 36)>>,
      <<Instr(0, 0, 8)>> }

\* a setup followed by one probed instruction
ProbePrograms == {s \o <<i>> : s \in Setups, i \in ProbeInstr}

SeqsUpTo(S, n) == UNION {[1..k -> S] : k \in 1..n}

\* inc, push, pop
StackInstr == {Instr(0, 0, 36), Instr(0, 0, 7), Instr(0, 0, 8)}

StackPrograms == SeqsUpTo(StackInstr, MaxStackProg)

\* call 2, call 4, return, halt
CallInstr == {Instr(0, 2, 9), Instr(0, 4, 9), Instr(0, 0, 10), Instr(0, 0, 127)}

CallPrograms == SeqsUpTo(CallInstr, MaxCallProg)

----------------------------------------------------------------------------
(* file_io.load: the reader of program images *)

\* b"QT" and b"QM"
TagQT == <<81, 84>>

TagQM == <<81, 77>>

\* file.read(n): the next n bytes, fewer at the end of the file
read(f, p, n) ==
    SubSeq(f, p + 1, IF p + n < Len(f) THEN p + n ELSE Len(f))

\* int.from_bytes(b), big-endian
RECURSIVE from_bytes(_)
from_bytes(b) ==
    IF b = <<>> THEN 0
    ELSE (from_bytes(SubSeq(b, 1, Len(b) - 1)) * 256) + b[Len(b)]

\* the tuple load appends for a 4-byte record
record_of(raw) ==
    <<BitAnd(raw[1], 1), from_bytes(SubSeq(raw, 2, 3)), raw[4]>>

\* the bytes of a "QT" image holding the program prog
RECURSIVE records_image(_)
records_image(prog) ==
    IF prog = <<>> THEN <<>>
    ELSE <<prog[1][1], prog[1][2] \div 256, prog[1][2] % 256, prog[1][3]>>
         \o records_image(Tail(prog))

image_of(prog) == TagQT \o <<0>> \o records_image(prog)

----------------------------------------------------------------------------
(* Behaviour *)

\* the caller has constructed the emulator and holds the loaded program
InitWith(programs) ==
    /\ args_namespace = "QT"
    /\ instructions \in programs
    /\ stream = image_of(instructions)
    /\ pos = Len(stream)
    /\ namespace = TagQT
    /\ load_pc = "returned"
    /\ phase = "constructed"
    /\ rom = Constructed.rom
    /\ cache = Constructed.cache
    /\ stack = Constructed.stack
    /\ address_stack = Constructed.address_stack
    /\ ports = Constructed.ports
    /\ accumulator = Constructed.accumulator
    /\ pointer_register = Constructed.pointer_register
    /\ program_counter = Constructed.program_counter
    /\ flag_register = Constructed.flag_register
    /\ stack_pointer = Constructed.stack_pointer
    /\ address_stack_pointer = Constructed.address_stack_pointer
    /\ instructions_executed = Constructed.instructions_executed
    /\ running = Constructed.running
    /\ exit_code = Constructed.exit_code
    /\ history = <<>>
    /\ screen_module = NoScreen
    /\ syscalls = <<>>

Init == InitWith(ProbePrograms)

InitStack == InitWith(StackPrograms)

InitCall == InitWith(CallPrograms)

\* the caller calls initialize_memory
InitializeMemory ==
    /\ phase = "constructed"
    /\ phase' = "initialized"
    /\ EmuNext(initialize_memory(Emu))
    /\ UNCHANGED <<args_namespace, loader, modules, instructions, history>>

\* the caller calls import_code with the loaded program
ImportCode ==
    /\ phase = "initialized"
    /\ phase' = "imported"
    /\ EmuNext(import_code(Emu, instructions))
    /\ UNCHANGED <<args_namespace, loader, modules, instructions, history>>

\* the caller calls run (for the first time, or again after run returned),
\* in behaviours of at most n instructions
RunCallWithin(n) ==
    /\ phase = "imported"
    /\ ~running
    /\ instructions_executed < n
    /\ EmuNext(run_enter(Emu))
    /\ UNCHANGED <<args_namespace, loader, modules, instructions, phase, history>>

RunCall == RunCallWithin(MaxSteps)

\* one iteration of the loop of run, in behaviours of at most n instructions
StepWithin(n) ==
    /\ phase = "imported"
    /\ running
    /\ instructions_executed < n
    /\ LET f == Fetch(Emu)
           t == run_iteration(Emu)
       IN  /\ EmuNext(t)
           /\ history' = Append(history,
                  [pc |-> f.pc, flag |-> f.flag, value |-> f.value,
                   opcode |-> f.opcode, bus |-> f.bus,
                   pre |-> Emu, post |-> t])
    /\ UNCHANGED <<args_namespace, loader, modules, instructions, phase>>

Step == StepWithin(MaxSteps)

Next == InitializeMemory \/ ImportCode \/ RunCall \/ Step

Spec == Init /\ [][Next]_vars

SpecStack == InitStack /\ [][Next]_vars

SpecCall == InitCall /\ [][Next]_vars

----------------------------------------------------------------------------
(* Loading: file_io.load reads an arbitrary byte stream, step by step *)

\* byte values the files are built from: NUL, 1, "M", "Q", "T"
FileBytes == {0, 1, 77, 81, 84}

Streams == {<<>>} \cup SeqsUpTo(FileBytes, MaxStream)

\* Application.run has opened some file and calls load on it
InitLoad ==
    /\ args_namespace \in {"QT", "QM"}
    /\ stream \in Streams
    /\ pos = 0
    /\ namespace = <<>>
    /\ load_pc = "header"
    /\ instructions = <<>>
    /\ phase = "loading"
    /\ rom = Constructed.rom
    /\ cache = Constructed.cache
    /\ stack = Constructed.stack
    /\ address_stack = Constructed.address_stack
    /\ ports = Constructed.ports
    /\ accumulator = Constructed.accumulator
    /\ pointer_register = Constructed.pointer_register
    /\ program_counter = Constructed.program_counter
    /\ flag_register = Constructed.flag_register
    /\ stack_pointer = Constructed.stack_pointer
    /\ address_stack_pointer = Constructed.address_stack_pointer
    /\ instructions_executed = Constructed.instructions_executed
    /\ running = Constructed.running
    /\ exit_code = Constructed.exit_code
    /\ history = <<>>
    /\ screen_module = NoScreen
    /\ syscalls = <<>>

\* one iteration of the tag loop: read one byte, stop at NUL, else collect it
LoadHeader ==
    /\ load_pc = "header"
    /\ LET char == read(stream, pos, 1)
       IN  /\ pos' = pos + Len(char)
           /\ IF char = <<0>>
              THEN /\ load_pc' = "records"
                   /\ UNCHANGED namespace
              ELSE /\ namespace' = namespace \o char
                   /\ UNCHANGED load_pc
    /\ EmuNext(Emu)
    /\ UNCHANGED <<args_namespace, stream, instructions, phase, history, modules>>

\* one iteration of the record loop
LoadRecord ==
    /\ load_pc = "records"
    /\ IF namespace \notin {TagQT, TagQM}
       THEN \* raise Exception("Unsupported file type")
            /\ load_pc' = "raised"
            /\ UNCHANGED <<pos, instructions>>
       ELSE LET raw == read(stream, pos, IF namespace = TagQT THEN 4 ELSE 3)
            IN  /\ pos' = pos + Len(raw)
                /\ IF raw = <<>>
                   THEN \* break, return instructions
                        /\ load_pc' = "returned"
                        /\ UNCHANGED instructions
                   ELSE IF Len(raw) < 4
                   THEN \* raw_instruction[3] raises IndexError
                        /\ load_pc' = "raised"
                        /\ UNCHANGED instructions
                   ELSE /\ instructions' = Append(instructions, record_of(raw))
                        /\ UNCHANGED load_pc
    /\ EmuNext(Emu)
    /\ UNCHANGED <<args_namespace, stream, namespace, phase, history, modules>>

\* load returned: Application.run constructs the emulator for --namespace
\* QT and raises NotImplementedError for --namespace QM
ConstructEmulator ==
    /\ phase = "loading"
    /\ load_pc = "returned"
    /\ IF args_namespace = "QT"
       THEN /\ phase' = "constructed"
            /\ EmuNext(Constructed)
       ELSE /\ phase' = "crashed"
            /\ EmuNext(Emu)
    /\ UNCHANGED <<args_namespace, loader, modules, instructions, history>>

NextLoad == LoadHeader \/ LoadRecord \/ ConstructEmulator

SpecLoad == InitLoad /\ [][NextLoad]_vars

\* load runs on one thread that is never suspended for good
SpecLoadFair == SpecLoad /\ WF_vars(NextLoad)

----------------------------------------------------------------------------
(* Application.run: the driver loop around the emulator's run.  c is the    *)
(* pair of the emulator and the history of its loop iterations.             *)

\* one iteration of the loop of run, recorded
iteration_of(c) ==
    LET f == Fetch(c.emu)
        t == run_iteration(c.emu)
    IN  [emu |-> t,
         hist |-> Append(c.hist,
                     [pc |-> f.pc, flag |-> f.flag, value |-> f.value,
                      opcode |-> f.opcode, bus |-> f.bus,
                      pre |-> c.emu, post |-> t])]

\* emulator.run(): the loop of run until running is false (or until the
\* bound on dispatched instructions is reached)
RECURSIVE run_loop(_)
run_loop(c) ==
    IF c.emu.running /\ c.emu.instructions_executed < MaxSteps
    THEN run_loop(iteration_of(c))
    ELSE c

emulator_run(c) == run_loop([c EXCEPT !.emu = run_enter(@)])

\* Application.process_screen: an empty body
process_screen(s) == s

\* Application.module_interrupt: match emulator.ports[0]
module_interrupt(s) == IF Read(s.ports, 0) = 1 THEN process_screen(s) ELSE s

\* while emulator.exit_code != 0: emulator.run(); if exit_code == 0x80: ...
RECURSIVE application_loop(_)
application_loop(c) ==
    IF c.emu.exit_code # 0 /\ c.emu.instructions_executed < MaxSteps
    THEN LET r == emulator_run(c)
         IN  IF r.emu.running
             THEN r
             ELSE application_loop(
                      IF r.emu.exit_code = 128
                      THEN [r EXCEPT !.emu = module_interrupt(@)]
                      ELSE r)
    ELSE c

\* Application.run from its loop to the instruction-count summary: the
\* driver is "done" when the loop was left, "looping" when the bound on
\* dispatched instructions cut it short
ApplicationRun ==
    /\ phase = "imported"
    /\ ~running
    /\ LET r == application_loop([emu |-> Emu, hist |-> history])
       IN  /\ EmuNext(r.emu)
           /\ history' = r.hist
           /\ phase' = IF r.emu.exit_code = 0 /\ ~r.emu.running
                       THEN "done" ELSE "looping"
    /\ UNCHANGED <<args_namespace, loader, modules, instructions>>

NextApp == InitializeMemory \/ ImportCode \/ ApplicationRun

SpecApp == Init /\ [][NextApp]_vars

----------------------------------------------------------------------------
(* modules.py: the ModuleLinker and its screen.  The cache reads of a blit  *)
(* are kept as the sequence of the indices read, in the order of the reads; *)
(* pygame is outside the model.                                             *)

\* _blit_bw: pixel i reads array[start + true_index // 16]
blit_bw_reads(w, h, start) ==
    [i \in 1..(w * h) |-> U16(start + ((i - 1) \div 16))]

\* _blit_bw8: pixel i reads array[start + true_index // 2]
blit_bw8_reads(w, h, start) ==
    [i \in 1..(w * h) |-> U16(start + ((i - 1) \div 2))]

\* _blit_rgb565: the slice array[start:start + width * height], its end
\* computed in uint16
blit_rgb565_reads(w, h, start) ==
    LET stop == U16(start + U16(w * h))
    IN  IF stop > start THEN [i \in 1..(stop - start) |-> start + (i - 1)]
        ELSE <<>>

\* _blit_rgb888: every pixel reads two cells, the even ones array[start +
\* index] and the next, the odd ones the one before and array[start + index]
blit_rgb888_reads(w, h, start) ==
    [i \in 1..(2 * (w * h)) |->
        LET true_index == (i - 1) \div 2
            at         == U16(start + U16(true_index * 2))
        IN  IF true_index % 2 = 0
            THEN (IF i % 2 = 1 THEN at ELSE U16(at + 1))
            ELSE (IF i % 2 = 1 THEN U16(at - 1) ELSE at)]

\* ScreenModule.blit_array
blit_array_reads(screen, start) ==
    CASE screen.color_mode = "BW" -> blit_bw_reads(screen.width, screen.height, start)
      [] screen.color_mode = "BW8" -> blit_bw8_reads(screen.width, screen.height, start)
      [] screen.color_mode = "RGB565" ->
             blit_rgb565_reads(screen.width, screen.height, start)
      [] screen.color_mode = "RGB888" ->
             blit_rgb888_reads(screen.width, screen.height, start)

\* _blit_rgb565 hands pygame a buffer of the cells it read: frombuffer raises
\* when they are not width * height
blit_array_raises(screen, start) ==
    /\ screen.color_mode = "RGB565"
    /\ Len(blit_array_reads(screen, start)) # screen.width * screen.height

\* _init_screen_module followed by ScreenModule.init
init_screen_module(s) ==
    LET mode == Read(s.ports, 2)
    IN  [exists     |-> TRUE,
         width      |-> Shr16(Read(s.ports, 1), 8),
         height     |-> BitAnd(Read(s.ports, 1), 255),
         color_mode |-> CASE mode = 1 -> "BW"
                          [] mode = 8 -> "BW8"
                          [] mode = 16 -> "RGB565"
                          [] mode = 24 -> "RGB888"
                          [] OTHER -> "BW8",
         running    |-> TRUE]

\* ModuleLinker._process_screen on emulator s with the linker's screen;
\* quit tells whether update finds a QUIT event, fails whether pygame raises
\* in update on a screen that has quit already.
linker_process_screen(s, screen, quit, fails) ==
    IF ~screen.exists
    THEN [emu |-> s, screen |-> init_screen_module(s), reads |-> <<>>,
          raised |-> FALSE]
    ELSE LET start == Read(s.ports, 1)
             reads == blit_array_reads(screen, start)
             after == [screen EXCEPT !.running = @ /\ ~quit]
         IN  IF blit_array_raises(screen, start) \/ (~screen.running /\ fails)
             THEN [emu |-> s, screen |-> screen, reads |-> reads, raised |-> TRUE]
             ELSE [emu    |-> IF after.running THEN s
                              ELSE [s EXCEPT !.exit_code = 0, !.running = FALSE],
                   screen |-> after, reads |-> reads, raised |-> FALSE]

\* ModuleLinker.process_syscall
process_syscall(s, screen, quit, fails) ==
    IF Read(s.ports, 0) = 1
    THEN linker_process_screen([s EXCEPT !.running = TRUE], screen, quit, fails)
    ELSE [emu |-> s, screen |-> screen, reads |-> <<>>, raised |-> FALSE]

\* programs that select a module, set the screen up, raise the interrupt,
\* then write a cache cell, point port 1 at it and raise it twice more
ModuleSelectors == {1, 2}

ScreenSizes == {257, 514, 1539}

ScreenModes == {0, 1, 8, 16, 24}

ScreenStarts == {0, 5, 65535}

ModulePrograms ==
    { << Instr(0, sel, 1), Instr(0, 0, 96),
         Instr(0, size, 1), Instr(0, 1, 96),
         Instr(0, mode, 1), Instr(0, 2, 96),
         Instr(0, 128, 126),
         Instr(0, start, 1), Instr(0, start, 2), Instr(0, 1, 96),
         Instr(0, 128, 126),
         Instr(0, 128, 126) >> :
      sel \in ModuleSelectors, size \in ScreenSizes,
      mode \in ScreenModes, start \in ScreenStarts }

InitModules == InitWith(ModulePrograms)

\* run has returned with exit code 0x80 more often than the linker was called
SyscallPending ==
    Cardinality({k \in DOMAIN history : /\ ~history[k].post.running
                                        /\ history[k].post.exit_code = 128})
        > Len(syscalls)

\* the caller enters run, after having served the interrupt if run left one
RunCallModules == ~SyscallPending /\ RunCallWithin(MaxModuleSteps)

StepModules == StepWithin(MaxModuleSteps)

\* run returned with exit code 0x80: the caller hands over to the linker
Syscall ==
    /\ phase = "imported"
    /\ ~running
    /\ exit_code = 128
    /\ SyscallPending
    /\ \E quit, fails \in BOOLEAN :
           LET r == process_syscall(Emu, screen_module, quit, fails)
           IN  /\ EmuNext(r.emu)
               /\ screen_module' = r.screen
               /\ syscalls' = Append(syscalls,
                      [pre |-> Emu, post |-> r.emu, before |-> screen_module,
                       after |-> r.screen, reads |-> r.reads,
                       raised |-> r.raised])
               /\ phase' = IF r.raised THEN "crashed" ELSE phase
    /\ UNCHANGED <<args_namespace, loader, instructions, history>>

\* the caller is not inside run: run has returned or was not entered since
\* process_syscall returned
CallerHasControl ==
    \/ ~running
    \/ syscalls # <<>> /\ syscalls[Len(syscalls)].post = Emu

\* ModuleLinker.exit, or ScreenModule.quit on the linker's screen
exit(screen) == IF screen.exists THEN [screen EXCEPT !.running = FALSE] ELSE screen

\* the caller stops the modules
LinkerExit ==
    /\ phase = "imported"
    /\ CallerHasControl
    /\ screen_module' = exit(screen_module)
    /\ UNCHANGED <<args_namespace, loader, instructions, phase, history, syscalls>>
    /\ EmuNext(Emu)

NextModules ==
    \/ InitializeMemory
    \/ ImportCode
    \/ RunCallModules
    \/ StepModules
    \/ Syscall
    \/ LinkerExit

SpecModules == InitModules /\ [][NextModules]_vars

----------------------------------------------------------------------------
(* Vocabulary of the properties *)

Steps == DOMAIN history

\* bit i of x
Bit(x, i) == (x \div (2^i)) % 2

\* number of set bits among the low 16 bits of x
Ones16(x) == Cardinality({i \in 0..15 : Bit(x, i) = 1})

\* the emulator as the iteration after iteration k finds it (the current
\* emulator when iteration k is the latest one)
NextPre(k) == IF k < Len(history) THEN history[k + 1].pre ELSE Emu

\* the ROM index fetched next after iteration k
NextFetch(k) == NextPre(k).program_counter

\* iteration k fetched ROM[n]
FetchedFrom(k, n) ==
    LET word == Read(rom, n)
    IN  /\ history[k].pc = n
        /\ history[k].flag = FetchFlag(word)
        /\ history[k].value = FetchValue(word)
        /\ history[k].opcode = FetchOpcode(word)

----------------------------------------------------------------------------
(* C1 *)

\* C1: every imported record (flag, value, opcode) with flag in {0,1}, value
\* in 0..65535 and opcode in 0..127 is decoded by the fetch step of run, when
\* run fetches its ROM cell, back to exactly (flag, value, opcode).
C1_WordRoundTrip ==
    \A k \in Steps :
        LET h == history[k]
        IN  (/\ h.pc < Len(instructions)
             /\ instructions[h.pc + 1][1] \in {0, 1}
             /\ instructions[h.pc + 1][2] \in 0..65535
             /\ instructions[h.pc + 1][3] \in 0..127)
            => <<h.flag, h.value, h.opcode>> = instructions[h.pc + 1]

\* a record with every field at its maximum was imported, fetched and decoded
C1_Witness ==
    \E k \in Steps :
        /\ history[k].pc < Len(instructions)
        /\ instructions[history[k].pc + 1] = <<1, 65535, 127>>
        /\ history[k].flag = 1
        /\ history[k].value = 65535
        /\ history[k].opcode = 127

----------------------------------------------------------------------------
(* C2 *)

\* C2: after a jump with bus value N is dispatched, the next instruction
\* fetched by run is ROM[N], for N = 0 (where the -1 bias wraps) as for the
\* other targets.
C2_JumpLandsOnTarget ==
    \A k \in Steps :
        history[k].opcode = 11
        => /\ NextFetch(k) = history[k].bus
           /\ k < Len(history) => FetchedFrom(k + 1, history[k].bus)

\* a jump to 0 was dispatched and the following iteration fetched ROM[0]
C2_Witness ==
    \E k \in Steps :
        /\ k < Len(history)
        /\ history[k].opcode = 11
        /\ history[k].bus = 0
        /\ history[k].pc > 0
        /\ history[k + 1].pc = 0

----------------------------------------------------------------------------
(* C3 *)

\* the iteration of the return matching the call of iteration k (0 if none
\* yet): scanning from j with depth open calls
RECURSIVE MatchFrom(_, _)
MatchFrom(j, depth) ==
    IF j > Len(history) THEN 0
    ELSE IF history[j].opcode = 9 THEN MatchFrom(j + 1, depth + 1)
    ELSE IF history[j].opcode = 10
         THEN (IF depth = 1 THEN j ELSE MatchFrom(j + 1, depth - 1))
    ELSE MatchFrom(j + 1, depth)

MatchingReturn(k) == MatchFrom(k + 1, 1)

\* C3: a call with bus value T dispatched at program counter P stores P on
\* top of the address stack and makes ROM[T] the next fetch; the matching
\* return makes ROM[(P+1) mod 65536] the next fetch and leaves the
\* address-stack pointer at its value before the call, also for nested calls
\* returning in LIFO order.
C3_CallReturn ==
    \A k \in Steps :
        LET h == history[k]
            m == MatchingReturn(k)
        IN  h.opcode = 9
            => /\ Read(h.post.address_stack,
                       (h.post.address_stack_pointer - 1) % 65536) = h.pc
               /\ NextFetch(k) = h.bus
               /\ k < Len(history) => FetchedFrom(k + 1, h.bus)
               /\ m # 0
                  => /\ NextFetch(m) = (h.pc + 1) % 65536
                     /\ m < Len(history) => FetchedFrom(m + 1, (h.pc + 1) % 65536)
                     /\ history[m].post.address_stack_pointer
                            = h.pre.address_stack_pointer

\* two nested calls returned in LIFO order and the outer return was followed
\* by a fetch
C3_Witness ==
    \E k1, k2 \in Steps :
        /\ k1 < k2
        /\ history[k1].opcode = 9
        /\ history[k2].opcode = 9
        /\ history[k1].pc > 0
        /\ MatchingReturn(k2) # 0
        /\ MatchingReturn(k1) > MatchingReturn(k2)
        /\ MatchingReturn(k1) < Len(history)

----------------------------------------------------------------------------
(* C4 *)

PushesIn(i, j) == {k \in i..j : history[k].opcode = 7}

PopsIn(i, j) == {k \in i..j : history[k].opcode = 8}

\* iterations i..j are n pushes followed by n pops, with no other stack
\* instruction in between
PushesThenPops(i, j) ==
    /\ i < j
    /\ history[i].opcode = 7
    /\ history[j].opcode = 8
    /\ Cardinality(PushesIn(i, j)) = Cardinality(PopsIn(i, j))
    /\ \A a \in PushesIn(i, j), b \in PopsIn(i, j) : a < b

\* C4: n pushes followed by n pops pop the pushed accumulator values in
\* reverse order and leave the stack pointer at its value before the first
\* push, whatever that value is, also when the pointer wraps past 65535.
C4_PushPopLifo ==
    \A i, j \in Steps :
        PushesThenPops(i, j)
        => /\ history[j].post.stack_pointer = history[i].pre.stack_pointer
           /\ \A a \in PushesIn(i, j), b \in PopsIn(i, j) :
                  Cardinality(PushesIn(a, j)) = Cardinality(PopsIn(i, b))
                  => history[b].post.accumulator = history[a].pre.accumulator

\* two distinct values were pushed from stack pointer 65535, so that the
\* pointer wrapped, and were popped again
C4_Witness ==
    \E i, j \in Steps :
        /\ PushesThenPops(i, j)
        /\ Cardinality(PushesIn(i, j)) = 2
        /\ history[i].pre.stack_pointer = 65535
        /\ \E a, b \in PushesIn(i, j) :
               history[a].pre.accumulator # history[b].pre.accumulator

----------------------------------------------------------------------------
(* C5 *)

\* the parity, zero and sign flags of emulator s describe its accumulator
FlagsDescribeAcc(s) ==
    /\ Bit(s.flag_register, FLAG_PARITY) = Ones16(s.accumulator) % 2
    /\ (Bit(s.flag_register, FLAG_ZERO) = 1) <=> (s.accumulator = 0)
    /\ Bit(s.flag_register, FLAG_SIGN) = Bit(s.accumulator, 15)

\* C5: at the end of every iteration of run, whatever the opcode, the parity
\* flag is the XOR of the 16 bits of ACC, the zero flag is (ACC = 0) and the
\* sign flag is bit 15 of ACC.
C5_FlagRefresh ==
    /\ \A k \in Steps : FlagsDescribeAcc(history[k].post)
    /\ history # <<>> => FlagsDescribeAcc(Emu)

\* an unregistered opcode ended an iteration with a non-zero accumulator of
\* odd parity and bit 15 set
C5_Witness ==
    \E k \in Steps :
        /\ history[k].opcode = 63
        /\ history[k].post.accumulator = 60000
        /\ Bit(history[k].post.flag_register, FLAG_PARITY) = 1
        /\ Bit(history[k].post.flag_register, FLAG_SIGN) = 1
        /\ Bit(history[k].post.flag_register, FLAG_ZERO) = 0

----------------------------------------------------------------------------
(* C6, C7 *)

CarryOf(s) == Bit(s.flag_register, FLAG_CARRY)

\* the mathematical sum add (32), addc (34) and inc (36) are to compute
SumOf(h) ==
    CASE h.opcode = 32 -> h.pre.accumulator + h.bus
      [] h.opcode = 34 -> h.pre.accumulator + h.bus + CarryOf(h.pre)
      [] h.opcode = 36 -> h.pre.accumulator + 1

\* the mathematical difference sub (33), subc (35) and dec (37) are to compute
DifferenceOf(h) ==
    CASE h.opcode = 33 -> h.pre.accumulator - h.bus
      [] h.opcode = 35 -> h.pre.accumulator - h.bus - CarryOf(h.pre)
      [] h.opcode = 37 -> h.pre.accumulator - 1

\* C6: add, addc and inc set ACC to the sum (ACC + bus, ACC + bus + carry-in,
\* ACC + 1) modulo 65536 and set the carry flag exactly when the sum exceeds
\* 65535, clearing it otherwise.
C6_AddCarry ==
    \A k \in Steps :
        history[k].opcode \in {32, 34, 36}
        => /\ history[k].post.accumulator = SumOf(history[k]) % 65536
           /\ (CarryOf(history[k].post) = 1) <=> (SumOf(history[k]) > 65535)

\* inc wrapped 65535 to 0 with the carry set, and an addc then consumed that
\* carry in a sum that exceeds 65535 only because of it
C6_Witness ==
    \E k1, k2 \in Steps :
        /\ history[k1].opcode = 36
        /\ history[k1].pre.accumulator = 65535
        /\ history[k1].post.accumulator = 0
        /\ CarryOf(history[k1].post) = 1
        /\ history[k2].opcode = 34
        /\ CarryOf(history[k2].pre) = 1
        /\ history[k2].pre.accumulator + history[k2].bus = 65535
        /\ CarryOf(history[k2].post) = 1

\* C7: sub, subc and dec set ACC to the difference (ACC - bus, ACC - bus -
\* carry-in, ACC - 1) modulo 65536 and set the carry flag exactly when the
\* difference is negative, clearing it otherwise.
C7_SubBorrow ==
    \A k \in Steps :
        history[k].opcode \in {33, 35, 37}
        => /\ history[k].post.accumulator = DifferenceOf(history[k]) % 65536
           /\ (CarryOf(history[k].post) = 1) <=> (DifferenceOf(history[k]) < 0)

----------------------------------------------------------------------------
(* C8 *)

\* C8: dispatching an opcode without a registered handler sets running to
\* false and exit_code to -1, and while running is false run dispatches
\* nothing: the loop is left.
C8_UnknownOpcodeTraps ==
    /\ \A k \in Steps :
           history[k].opcode \in OpcodeSlots \ RegisteredOpcodes
           => /\ history[k].post.running = FALSE
              /\ history[k].post.exit_code = -1
    /\ ~running => ~ENABLED Step

\* opcode 63 was dispatched after other instructions and run was left with
\* exit code -1
C8_Witness ==
    /\ ~running
    /\ exit_code = -1
    /\ Len(history) > 1
    /\ history[Len(history)].opcode = 63

----------------------------------------------------------------------------
(* C9 *)

\* C9: in an iteration of run, running becomes false exactly when the
\* opcode is halt, int or unregistered, and run is left then; every other
\* instruction leaves running true and exit_code unchanged; halt sets
\* exit_code to 0 and int sets it to its bus value.
C9_OnlyHaltIntTrapStop ==
    /\ \A k \in Steps :
           LET h == history[k]
               stops == h.opcode \in {126, 127} \/ h.opcode \notin RegisteredOpcodes
           IN  /\ h.pre.running
               /\ h.post.running <=> ~stops
               /\ ~stops => h.post.exit_code = h.pre.exit_code
               /\ h.opcode = 127 => h.post.exit_code = 0
               /\ h.opcode = 126 => h.post.exit_code = h.bus
    /\ ~running => ~ENABLED Step

\* an int set a non-zero exit code, a later instruction kept it and kept
\* running, and a halt then stopped run with exit code 0
C9_Witness ==
    \E k1, k2, k3 \in Steps :
        /\ k1 < k2
        /\ k2 < k3
        /\ history[k1].opcode = 126
        /\ history[k1].post.exit_code = 128
        /\ history[k2].opcode \in RegisteredOpcodes \ {126, 127}
        /\ history[k2].post.exit_code = 128
        /\ history[k2].post.running
        /\ history[k3].opcode = 127
        /\ ~history[k3].post.running
        /\ history[k3].post.exit_code = 0

----------------------------------------------------------------------------
(* C10 *)

\* the registers and memory banks the claim names
Resumable(s) ==
    <<s.accumulator, s.pointer_register, s.stack_pointer,
      s.address_stack_pointer, s.cache, s.stack, s.address_stack, s.ports>>

\* C10: after an int with bus value 0x80 dispatched at program counter P,
\* run returns with exit_code 128, the next call of run first fetches
\* ROM[(P+1) mod 65536], and ACC, PR, both stack pointers, cache, both stacks
\* and ports then have the values they had when the int was dispatched.
C10_ResumeAfterInt ==
    \A k \in Steps :
        LET h == history[k]
        IN  (h.opcode = 126 /\ h.bus = 128)
            => /\ h.post.exit_code = 128
               /\ ~h.post.running
               /\ NextFetch(k) = (h.pc + 1) % 65536
               /\ Resumable(NextPre(k)) = Resumable(h.pre)
               /\ k < Len(history) => FetchedFrom(k + 1, (h.pc + 1) % 65536)

\* an int 0x80 was dispatched with ACC, PR, the stack and the ports set, run
\* was called again and fetched the following instruction
C10_Witness ==
    \E k \in Steps :
        /\ k < Len(history)
        /\ history[k].opcode = 126
        /\ history[k].bus = 128
        /\ history[k].pc > 0
        /\ history[k].pre.accumulator # 0
        /\ history[k].pre.pointer_register # 0
        /\ history[k].pre.stack_pointer # 0
        /\ history[k].pre.stack # EmptyBank
        /\ history[k].pre.ports # EmptyBank
        /\ history[k + 1].pc = history[k].pc + 1

----------------------------------------------------------------------------
(* C11 *)

\* C11: instructions_executed grows by exactly 1 in every iteration of run
\* that dispatches an instruction, the iteration of a halt, an int or an
\* unregistered opcode included, and nothing else changes it; when run has
\* returned it is the number of instructions dispatched so far, the
\* terminating one included.
C11_CountsEveryDispatch ==
    /\ \A k \in Steps :
           /\ history[k].post.instructions_executed
                  = history[k].pre.instructions_executed + 1
           /\ NextPre(k).instructions_executed
                  = history[k].post.instructions_executed
    /\ instructions_executed = Len(history)

\* run returned from an int, was called again and returned from an
\* unregistered opcode, with every dispatch counted
C11_Witness ==
    /\ ~running
    /\ Len(history) > 2
    /\ history[Len(history)].opcode = 63
    /\ instructions_executed = Len(history)
    /\ \E k \in Steps : history[k].opcode = 126

----------------------------------------------------------------------------
(* C12 *)

\* run is invoked after iteration k (k = 0: for the first time), if at all
RunReturnedAt(k) == k = 0 \/ ~history[k].post.running

\* the emulator is inside the invocation of run that follows iteration k
InsideRunAfter(k) == k < Len(history) \/ running

\* every invocation of run starts from running = true and
\* instructions_executed = 0, a re-entry after exit code 0x80 included
C12_RunStartsFromZero ==
    \A k \in 0..Len(history) :
        (RunReturnedAt(k) /\ InsideRunAfter(k))
        => /\ NextPre(k).running
           /\ NextPre(k).instructions_executed = 0

\* C12 (amended): every invocation of run starts from running = true; the
\* first one starts from instructions_executed = 0, and a re-entry, after
\* exit code 0x80 or any other, starts from the count the earlier
\* invocations have reached.
C12_RunStartsFromCountSoFar ==
    \A k \in 0..Len(history) :
        (RunReturnedAt(k) /\ InsideRunAfter(k))
        => /\ NextPre(k).running
           /\ NextPre(k).instructions_executed = k
           /\ k > 0 => NextPre(k).instructions_executed
                           = history[k].post.instructions_executed

\* run returned from an int 0x80, was called again and dispatched its first
\* instruction with a count above 0
C12_Witness ==
    \E k \in Steps :
        /\ k < Len(history)
        /\ history[k].opcode = 126
        /\ history[k].post.exit_code = 128
        /\ history[k + 1].pre.running
        /\ history[k + 1].pre.instructions_executed > 0

----------------------------------------------------------------------------
(* C13 *)

\* C13: when Application.run is through (it prints the instruction-count
\* summary), it has invoked the emulator's run at least once and the
\* imported program has been executed up to a halt with exit code 0.
C13_ApplicationRunsProgram ==
    phase = "done"
    => /\ history # <<>>
       /\ ~history[Len(history)].post.running
       /\ exit_code = 0

\* the file starts with a supported tag: "QT" or "QM", then the NUL
WellTagged ==
    \E i \in 1..Len(stream) :
        /\ stream[i] = 0
        /\ SubSeq(stream, 1, i - 1) \in {TagQT, TagQM}

\* C15: on every byte stream load ends, by returning the record list or by
\* raising, and it returns only when the stream starts with a supported tag
\* closed by a NUL; a missing NUL or another tag never ends in a return.
C15_LoadTerminates ==
    /\ <>(load_pc \in {"returned", "raised"})
    /\ [](load_pc = "returned" => WellTagged)

----------------------------------------------------------------------------
(* C16 *)

\* the ROM as import_code left it
ImportedRom == import_code(initialize_memory(Constructed), instructions).rom

\* C16: run never modifies the ROM: before and after every iteration of run,
\* over any number of returns and re-entries, every ROM cell holds the word
\* import_code stored in it.
C16_RomReadOnly ==
    phase = "imported"
    => /\ rom = ImportedRom
       /\ \A k \in Steps : /\ history[k].pre.rom = ImportedRom
                           /\ history[k].post.rom = ImportedRom

\* run returned on an int and was re-entered, then a store wrote a non-zero
\* accumulator to an address whose ROM cell holds another word
C16_Witness ==
    /\ rom # EmptyBank
    /\ \E j, k \in Steps :
           /\ j < k
           /\ history[j].opcode = 126
           /\ history[k].opcode = 2
           /\ history[k].pre.accumulator # 0
           /\ Read(rom, history[k].bus) # 0
           /\ Read(history[k].post.cache, history[k].bus) = history[k].pre.accumulator

----------------------------------------------------------------------------
(* C17 *)

\* the 16-bit circular rotation of x by n positions, 0 <= n <= 15
RotL(x, n) == ((x % (2^(16 - n))) * (2^n)) + (x \div (2^(16 - n)))

RotR(x, n) == RotL(x, (16 - n) % 16)

\* C17: rol (ror) with bus value n in 0..15 leaves in ACC the circular left
\* (right) rotation of ACC by n positions; so n = 0 leaves ACC unchanged and
\* the number of set bits of ACC is preserved.
C17_RotateIsCircular ==
    \A k \in Steps :
        LET h == history[k]
        IN  /\ (h.opcode = 21 /\ h.bus \in 0..15)
               => /\ h.post.accumulator = RotL(h.pre.accumulator, h.bus)
                  /\ Ones16(h.post.accumulator) = Ones16(h.pre.accumulator)
            /\ (h.opcode = 22 /\ h.bus \in 0..15)
               => /\ h.post.accumulator = RotR(h.pre.accumulator, h.bus)
                  /\ Ones16(h.post.accumulator) = Ones16(h.pre.accumulator)

----------------------------------------------------------------------------
(* C18 *)

\* C18: jumpc with bus value m makes ROM[PR] the next fetch exactly when
\* (m AND flag register) is non-zero at dispatch, also for PR = 0; otherwise
\* the next fetch is ROM[(PC + 1) mod 65536].
C18_JumpcAnySelectedFlag ==
    \A k \in Steps :
        LET h == history[k]
        IN  h.opcode = 12
            => NextFetch(k) = IF BitAnd(h.bus, h.pre.flag_register) # 0
                              THEN h.pre.pointer_register
                              ELSE (h.pc + 1) % 65536

\* a jumpc was taken to a PR other than 0 and other than PC + 1 with a mask
\* selecting a set flag and a clear one
C18_Witness ==
    \E k \in Steps :
        LET h == history[k]
        IN  /\ h.opcode = 12
            /\ BitAnd(h.bus, h.pre.flag_register) # 0
            /\ BitAnd(h.bus, h.pre.flag_register) # h.bus
            /\ h.pre.pointer_register \notin {0, h.pc + 1}
            /\ NextFetch(k) = h.pre.pointer_register

----------------------------------------------------------------------------
(* C19 *)

\* C19 as stated: after a clf, whatever its bus value, the flag register is
\* 0: all six flags are clear when the following instruction is fetched.
C19_ClfClearsAllFlags ==
    \A k \in Steps :
        history[k].opcode = 13 => NextPre(k).flag_register = 0

\* C19, amended: after a clf, whatever its bus value, the carry, overflow and
\* underflow flags (and every bit of the flag register above the six flags)
\* are clear when the following instruction is fetched, while the parity,
\* zero and sign flags are those of ACC, recomputed after the clf.
C19_ClfClearsStickyFlags ==
    \A k \in Steps :
        history[k].opcode = 13
        => /\ Bit(NextPre(k).flag_register, FLAG_CARRY) = 0
           /\ Bit(NextPre(k).flag_register, FLAG_OVERFLOW) = 0
           /\ Bit(NextPre(k).flag_register, FLAG_UNDERFLOW) = 0
           /\ NextPre(k).flag_register < 2^(FLAG_UNDERFLOW + 1)
           /\ FlagsDescribeAcc(NextPre(k))

\* a clf with an empty bitmask met the carry, overflow and underflow flags
\* set and ACC = 0: the next fetch finds the carry clear and the zero flag set
C19_Witness ==
    \E k \in Steps :
        /\ history[k].opcode = 13
        /\ history[k].bus = 0
        /\ Bit(history[k].pre.flag_register, FLAG_CARRY) = 1
        /\ Bit(history[k].pre.flag_register, FLAG_OVERFLOW) = 1
        /\ Bit(history[k].pre.flag_register, FLAG_UNDERFLOW) = 1
        /\ history[k].pre.accumulator = 0
        /\ Bit(NextPre(k).flag_register, FLAG_CARRY) = 0
        /\ Bit(NextPre(k).flag_register, FLAG_ZERO) = 1

----------------------------------------------------------------------------
(* C20 *)

CarryChangers == {32, 33, 34, 35, 36, 37, 13}

OverflowChangers == {19, 38, 13}

UnderflowChangers == {20, 13}

\* flag f has the same value in emulators s and t
SameFlag(f, s, t) == Bit(s.flag_register, f) = Bit(t.flag_register, f)

\* C20: the carry flag is changed only by add, sub, addc, subc, inc, dec and
\* clf, the overflow flag only by lsl, mul and clf, the underflow flag only
\* by lsr and clf: an iteration of run on any other opcode, its flag refresh
\* included, ends with the flag as it began, and nothing changes the three
\* flags between one iteration and the next.
C20_StickyFlagsFrame ==
    \A k \in Steps :
        LET h == history[k]
        IN  /\ h.opcode \notin CarryChangers => SameFlag(FLAG_CARRY, h.pre, h.post)
            /\ h.opcode \notin OverflowChangers
               => SameFlag(FLAG_OVERFLOW, h.pre, h.post)
            /\ h.opcode \notin UnderflowChangers
               => SameFlag(FLAG_UNDERFLOW, h.pre, h.post)
            /\ \A f \in {FLAG_CARRY, FLAG_OVERFLOW, FLAG_UNDERFLOW} :
                   SameFlag(f, h.post, NextPre(k))

\* a comp met all three flags set and left them set, while the refresh
\* cleared the zero flag and set the sign flag
C20_Witness ==
    \E k \in Steps :
        LET h == history[k]
        IN  /\ h.opcode = 23
            /\ \A f \in {FLAG_CARRY, FLAG_OVERFLOW, FLAG_UNDERFLOW} :
                   /\ Bit(h.pre.flag_register, f) = 1
                   /\ Bit(h.post.flag_register, f) = 1
            /\ Bit(h.pre.flag_register, FLAG_ZERO) = 1
            /\ Bit(h.post.flag_register, FLAG_ZERO) = 0
            /\ Bit(h.post.flag_register, FLAG_SIGN) = 1

----------------------------------------------------------------------------
(* C21 *)

Word16 == 0..65535

\* the five 16-bit registers of emulator s hold 16-bit unsigned values
RegistersIn16(s) ==
    /\ s.accumulator \in Word16
    /\ s.pointer_register \in Word16
    /\ s.program_counter \in Word16
    /\ s.stack_pointer \in Word16
    /\ s.address_stack_pointer \in Word16

\* C21: in every state reachable through run, ACC, PR, PC, the stack pointer
\* and the address-stack pointer are in 0..65535, so every fetch reads a
\* valid ROM index; advancing PC from 65535 yields 0 and decrementing a stack
\* pointer from 0 yields 65535.
C21_RegistersWrap ==
    /\ RegistersIn16(Emu)
    /\ \A k \in Steps :
           LET h == history[k]
           IN  /\ RegistersIn16(h.pre)
               /\ RegistersIn16(h.post)
               /\ h.pc \in Word16
               /\ (h.pc = 65535 /\ h.opcode = 0) => NextFetch(k) = 0
               /\ (h.opcode = 8 /\ h.pre.stack_pointer = 0)
                  => h.post.stack_pointer = 65535
               /\ (h.opcode = 10 /\ h.pre.address_stack_pointer = 0)
                  => h.post.address_stack_pointer = 65535

\* a pop moved the stack pointer from 0 to 65535, and later the instruction
\* at ROM[65535] was followed by the fetch of ROM[0]
C21_Witness ==
    \E j, k \in Steps :
        /\ j < k
        /\ history[j].opcode = 8
        /\ history[j].pre.stack_pointer = 0
        /\ history[j].post.stack_pointer = 65535
        /\ history[k].pc = 65535
        /\ NextFetch(k) = 0

----------------------------------------------------------------------------
(* C22 *)

\* bits 6 to 15 of the flag register of emulator s are 0
OnlyNamedFlags(s) == s.flag_register \in 0..(2^(FLAG_UNDERFLOW + 1) - 1)

\* C22: in every state reachable through run, bits 6 to 15 of the flag
\* register are 0: only the six named flag bits are ever set.
C22_ReservedFlagBitsZero ==
    /\ OnlyNamedFlags(Emu)
    /\ \A k \in Steps : OnlyNamedFlags(history[k].pre) /\ OnlyNamedFlags(history[k].post)

\* carry, sign, overflow and underflow (bits 0, 3, 4, 5) are set together
\* after an lsr on an odd accumulator set the highest named flag
C22_Witness ==
    /\ history # <<>>
    /\ flag_register = 57
    /\ \E k \in Steps : history[k].opcode = 20 /\ history[k].pre.accumulator % 2 = 1

----------------------------------------------------------------------------
(* C23 *)

\* (memory_flag << 23) | (value << 7) | opcode for the record r
WordOr(r) == BitOr(BitOr(r[1] * (2^23), r[2] * (2^7)), r[3])

\* C23: for every record the loader can produce (memory_flag in {0, 1},
\* value in 0..65535, opcode in 0..255) at position i, import_code stores at
\* ROM[i] the word (memory_flag << 23) | (value << 7) | opcode.
C23_ImportStoresOrWord ==
    phase = "imported"
    => \A i \in 1..Len(instructions) :
           (/\ instructions[i][1] \in {0, 1}
            /\ instructions[i][2] \in 0..65535
            /\ instructions[i][3] \in 0..255)
           => Read(rom, i - 1) = WordOr(instructions[i])

----------------------------------------------------------------------------
(* C24 *)

\* C24: the value stack and the stack pointer change only in push and pop,
\* the address stack and its pointer only in call and return, the cache only
\* in store and storep, the ports only in portw: an iteration of run on any
\* other opcode ends with the bank and pointer as it began, and nothing
\* changes them between one iteration and the next.
C24_BankFrame ==
    \A k \in Steps :
        LET h == history[k]
            n == NextPre(k)
        IN  /\ h.opcode \notin {7, 8}
               => /\ h.post.stack = h.pre.stack
                  /\ h.post.stack_pointer = h.pre.stack_pointer
            /\ h.opcode \notin {9, 10}
               => /\ h.post.address_stack = h.pre.address_stack
                  /\ h.post.address_stack_pointer = h.pre.address_stack_pointer
            /\ h.opcode \notin {2, 5} => h.post.cache = h.pre.cache
            /\ h.opcode # 96 => h.post.ports = h.pre.ports
            /\ n.stack = h.post.stack
            /\ n.stack_pointer = h.post.stack_pointer
            /\ n.address_stack = h.post.address_stack
            /\ n.address_stack_pointer = h.post.address_stack_pointer
            /\ n.cache = h.post.cache
            /\ n.ports = h.post.ports

\* with a value on the stack, a portr read a non-zero port into ACC and left
\* the ports, the stack and its pointer as they were
C24_Witness ==
    \E k \in Steps :
        LET h == history[k]
        IN  /\ h.opcode = 97
            /\ Read(h.pre.ports, h.bus) # 0
            /\ h.post.accumulator = Read(h.pre.ports, h.bus)
            /\ h.post.ports = h.pre.ports
            /\ h.pre.stack # EmptyBank
            /\ h.post.stack = h.pre.stack
            /\ h.post.stack_pointer = 1

----------------------------------------------------------------------------
(* C25 *)

Calls == DOMAIN syscalls

\* call c of process_syscall is a screen syscall: port 0 holds 1
ScreenCall(c) == Read(syscalls[c].pre.ports, 0) = 1

\* C25: the first screen syscall (port 0 = 1 while no screen exists) only
\* creates a screen of width port1 >> 8 and height port1 & 0xFF and reads no
\* pixel data; every later screen syscall reads the framebuffer from the
\* cache, beginning at the offset in port 1; no syscall writes to the cache.
C25_ScreenSyscalls ==
    \A c \in Calls :
        LET call  == syscalls[c]
            port1 == Read(call.pre.ports, 1)
        IN  /\ call.post.cache = call.pre.cache
            /\ (ScreenCall(c) /\ ~call.before.exists)
               => /\ call.after.exists
                  /\ call.after.width = port1 \div 256
                  /\ call.after.height = port1 % 256
                  /\ call.reads = <<>>
            /\ (ScreenCall(c) /\ call.before.exists)
               => /\ call.reads # <<>>
                  /\ call.reads[1] = port1
                  /\ call.after.width = call.before.width
                  /\ call.after.height = call.before.height

============================================================================
